---- MODULE Spec2Model ----
(***************************************************************************)
(* Model of obspy/core/util.py: the format registry                       *)
(* (getFormatsAndMethods), the trace metadata record (Stats) and the UTC  *)
(* time value (DateTime).                                                  *)
(***************************************************************************)
EXTENDS Integers, Sequences, FiniteSets, TLC

VARIABLES
    \* ---- getFormatsAndMethods ----
    pc,        \* position inside getFormatsAndMethods
    verbose,   \* the verbose argument
    outcome,   \* environment: what importing each candidate backend does
    bound,     \* names bound in the function's local namespace
    temp,      \* the local list temp
    failure,   \* the local list failure
    out,       \* what has been printed to stdout
    idx,       \* the loop variable _i of the verbose loop
    ret,       \* the values handed back to the caller
    raised,    \* exception that left the function ("none" if none)
    \* ---- Stats ----
    spc,       \* "new" before Stats.__init__ ran, "live" after
    initial,   \* the mapping passed to Stats(...)
    stats,     \* the Stats object: dict storage, own attribute dict, __dict__
    written,   \* history: last value written per key after construction
    \* ---- DateTime ----
    tpc,       \* position in the conversion scenario
    tz,        \* host local timezone, seconds east of UTC
    arg,       \* constructor arguments of the first DateTime
    dt,        \* the first DateTime (calendar tuple)
    ts,        \* the float produced by timestamp()
    nadd,      \* whole seconds added to the float
    ts2,       \* the float after the addition
    dt2        \* the DateTime rebuilt from the float

dvars == <<pc, verbose, outcome, bound, temp, failure, out, idx, ret, raised>>
svars == <<spc, initial, stats, written>>
tvars == <<tpc, tz, arg, dt, ts, nadd, ts2, dt2>>
vars == <<dvars, svars, tvars>>

(***************************************************************************)
(* getFormatsAndMethods                                                    *)
(***************************************************************************)

\* The three try blocks, in source order.
Candidates == <<"MSEED", "GSE2", "WAV">>

NumCandidates == 3

\* The module each try block imports from.
ModuleOf(c) ==
    CASE c = "MSEED" -> "obspy.mseed.core"
      [] c = "GSE2"  -> "obspy.gse2.core"
      [] c = "WAV"   -> "obspy.wav.core"

\* The three names each try block imports, in the order of the import list.
NamesOf(c) ==
    CASE c = "MSEED" -> <<"isMSEED", "readMSEED", "writeMSEED">>
      [] c = "GSE2"  -> <<"isGSE2", "readGSE2", "writeGSE2">>
      [] c = "WAV"   -> <<"isWAV", "readWAV", "writeWAV">>

\* Exceptions a backend module may raise while it is being imported.
BackendExceptions == {"RuntimeError", "SystemExit"}

\* What the environment does for one candidate: the import binds, the
\* module is missing, the module raises exc while imported, or the module
\* lacks the n-th imported name.
Outcomes ==
    {[kind |-> "binds", exc |-> "none", n |-> 0],
     [kind |-> "missing", exc |-> "ImportError", n |-> 0]}
    \cup {[kind |-> "raises", exc |-> e, n |-> 0] : e \in BackendExceptions}
    \cup {[kind |-> "noname", exc |-> "ImportError", n |-> n] : n \in 1..3}

\* The names a "from m import a, b, c" statement stores before it stops:
\* IMPORT_NAME fails before any store; IMPORT_FROM/STORE pairs run in order.
NamesStored(c, o) ==
    CASE o.kind = "binds"  -> {NamesOf(c)[j] : j \in 1..3}
      [] o.kind = "noname" -> {NamesOf(c)[j] : j \in 1..(o.n - 1)}
      [] OTHER             -> {}

\* An import statement that does not look for the last name of its list.
ImportRaisesLax(o) == IF o.kind = "noname" /\ o.n = 3 THEN "none" ELSE o.exc

\* The exception the import statement raises ("none" if it completes).
ImportRaises(o) == o.exc

\* "except ImportError:" in place of the bare clause.
CatchesImportError(e) == e = "ImportError"

\* A bare "except:" clause catches every exception.
Catches(e) == TRUE

\* traceback.format_exc(): the text names the exception and quotes the
\* failing import line, hence the backend's module.
FormatExc(c, o) ==
    [exc |-> o.exc, module |-> ModuleOf(c),
     text |-> IF o.kind = "noname" THEN NamesOf(c)[o.n] ELSE o.kind]

\* temp.append([name, is, read, write])
Descriptor(c) == <<c>> \o NamesOf(c)

\* temp.insert(0, ...) in place of temp.append(...).
TempInsertFirst(t, c) == <<Descriptor(c)>> \o t

\* temp.append([...]) of a try block.
TempAppend(t, c) == Append(t, Descriptor(c))

\* failure = [traceback.format_exc()] in place of failure.append(...).
FailureOverwrite(f, c, o) == <<FormatExc(c, o)>>

\* failure.append(traceback.format_exc()) of an except block.
FailureAppend(f, c, o) == Append(f, FormatExc(c, o))

\* A loop that prints whatever the flag says.
ShouldPrintAlways(v, f) == Len(f) > 0

\* "if verbose:" followed by a loop over a non-empty failure list.
ShouldPrint(v, f) == v /\ Len(f) > 0

\* One try/except block of getFormatsAndMethods, for candidate number k.
Try(k) ==
    LET c == Candidates[k]
        o == outcome[c]
        e == ImportRaises(o)
        nxt == IF k < NumCandidates THEN Candidates[k + 1] ELSE "verbose"
    IN  /\ pc = c
        /\ bound' = bound \cup NamesStored(c, o)
        /\ IF e = "none"
             THEN /\ temp' = TempAppend(temp, c)
                  /\ pc' = nxt
                  /\ UNCHANGED <<failure, raised>>
             ELSE IF Catches(e)
               THEN /\ failure' = FailureAppend(failure, c, o)
                    /\ pc' = nxt
                    /\ UNCHANGED <<temp, raised>>
               ELSE /\ raised' = e
                    /\ pc' = "raised"
                    /\ UNCHANGED <<temp, failure>>
        /\ UNCHANGED <<verbose, outcome, out, idx, ret, svars, tvars>>

TryMSEED == Try(1)
TryGSE2 == Try(2)
TryWAV == Try(3)

\* "if verbose:" with the loop header evaluated for the first time.
TestVerbose ==
    /\ pc = "verbose"
    /\ pc' = IF ShouldPrint(verbose, failure) THEN "print" ELSE "return"
    /\ idx' = 0
    /\ UNCHANGED <<verbose, outcome, bound, temp, failure, out, ret, raised,
                   svars, tvars>>

\* One iteration of "for _i in xrange(len(failure)): print failure[_i]".
PrintFailure ==
    /\ pc = "print"
    /\ out' = Append(out, failure[idx + 1])
    /\ idx' = idx + 1
    /\ pc' = IF idx + 1 < Len(failure) THEN "print" ELSE "return"
    /\ UNCHANGED <<verbose, outcome, bound, temp, failure, ret, raised,
                   svars, tvars>>

\* "return temp"
Return ==
    /\ pc = "return"
    /\ ret' = <<temp>>
    /\ pc' = "done"
    /\ UNCHANGED <<verbose, outcome, bound, temp, failure, out, idx, raised,
                   svars, tvars>>

(***************************************************************************)
(* DateTime                                                                *)
(*                                                                         *)
(* Whole seconds since the epoch are kept as a pair (days, second of day)  *)
(* so that every intermediate number stays a small integer.  A Python      *)
(* float holding a non-negative time is the record [d, s, q, k]: the       *)
(* value d*86400 + s + q / 2^k with 0 <= q < 2^k, where 2^-k is the        *)
(* spacing of IEEE doubles at that magnitude.                              *)
(***************************************************************************)

SecPerDay == 86400

MantissaBits == 52

Norm(d, s) == [d |-> d + (s \div SecPerDay), s |-> s % SecPerDay]

PairLE(a, b) == a.d < b.d \/ (a.d = b.d /\ a.s <= b.s)

\* 2^e seconds as a (days, second of day) pair, for 7 <= e <= 37:
\* 86400 = 2^7 * 675.
Pow2Pair(e) ==
    [d |-> (2 ^ (e - 7)) \div 675, s |-> ((2 ^ (e - 7)) % 675) * 128]

\* floor(log2(S)) for a pair S of at least 2^22 and less than 2^38 seconds
\* (the year 10680).
Exponent(S) ==
    CHOOSE e \in 22..37 :
        PairLE(Pow2Pair(e), S) /\ (e = 37 \/ ~PairLE(Pow2Pair(e + 1), S))

\* Number of fraction bits of a double whose integer part is S.  Below
\* 2^22 seconds a double has more than 30 fraction bits; the model keeps
\* 30, which is finer than a thousandth of a microsecond.
FracBits(S) ==
    IF ~PairLE(Pow2Pair(22), S) THEN 30 ELSE MantissaBits - Exponent(S)

\* float(n) for a non-negative whole number of seconds.
FloatOfInt(S) == [d |-> S.d, s |-> S.s, q |-> 0, k |-> FracBits(S)]

\* Quotient and remainder of x * 2^j / 15625 for x < 10^6 and j <= 24,
\* in two steps so that no product passes 2^31.
MulPow2Div(x, j) ==
    LET j1 == IF j > 11 THEN 11 ELSE j
        j2 == j - j1
        a == x * 2 ^ j1
        q1 == a \div 15625
        r1 == a % 15625
    IN  [quo |-> q1 * 2 ^ j2 + ((r1 * 2 ^ j2) \div 15625),
         rem |-> (r1 * 2 ^ j2) % 15625]

\* us / 1.0e6 rounded to k fraction bits (round to nearest, ties to even):
\* us * 2^k / 10^6 = us * 2^(k-6) / 15625.
MicroToFrac(us, k) ==
    LET p == MulPow2Div(us, k - 6)
    IN  IF 2 * p.rem > 15625 \/ (2 * p.rem = 15625 /\ p.quo % 2 = 1)
        THEN p.quo + 1 ELSE p.quo

\* float(S) + us / 1.0e6: the sum is rounded to the doubles at S's magnitude.
FloatPlusMicro(S, us) ==
    LET k == FracBits(S)
        q == MicroToFrac(us, k)
    IN  IF q = 2 ^ k
        THEN FloatOfInt(Norm(S.d, S.s + 1))
        ELSE [d |-> S.d, s |-> S.s, q |-> q, k |-> k]

\* f + n for a float f and a whole number n, rounded to nearest, ties to even.
FloatAddInt(f, n) ==
    LET S == Norm(f.d, f.s + n)
        k == FracBits(S)
    IN  IF k >= f.k
        THEN [d |-> S.d, s |-> S.s, q |-> f.q * 2 ^ (k - f.k), k |-> k]
        ELSE LET unit == 2 ^ (f.k - k)
                 quo == f.q \div unit
                 rem == f.q % unit
                 q == IF 2 * rem > unit \/ (2 * rem = unit /\ quo % 2 = 1)
                      THEN quo + 1 ELSE quo
             IN  IF q = 2 ^ k
                 THEN FloatOfInt(Norm(S.d, S.s + 1))
                 ELSE [d |-> S.d, s |-> S.s, q |-> q, k |-> k]

\* Quotient and remainder of q * 15625 / 2^j for q < 2^(j+6) and j <= 24,
\* in steps so that no product passes 2^31.
MulDivPow2(q, j) ==
    LET hi == q \div (2 ^ j)
        lo == q % (2 ^ j)
        h == IF j > 12 THEN 12 ELSE j
        u == lo \div (2 ^ h)
        v == lo % (2 ^ h)
        a == u * 15625 + ((v * 15625) \div (2 ^ h))
        r1 == (v * 15625) % (2 ^ h)
    IN  [quo |-> hi * 15625 + (a \div (2 ^ (j - h))),
         rem |-> (a % (2 ^ (j - h))) * (2 ^ h) + r1]

\* int(fraction * 1e6): microseconds cut off instead of rounded.
FracToMicroTruncated(q, k) == MulDivPow2(q, k - 6).quo

\* round_to_long(fraction * 1e6) of datetime_from_timestamp: the fraction
\* q / 2^k in microseconds, halves rounded away from zero.
FracToMicro(q, k) ==
    LET p == MulDivPow2(q, k - 6)
    IN  IF 2 * p.rem >= 2 ^ (k - 6) THEN p.quo + 1 ELSE p.quo

IsLeap(y) == y % 4 = 0 /\ (y % 100 # 0 \/ y % 400 = 0)

\* calendar.mdays
MDays(m) == <<31, 28, 31, 30, 31, 30, 31, 31, 30, 31, 30, 31>>[m]

DaysInMonth(y, m) == IF m = 2 /\ IsLeap(y) THEN 29 ELSE MDays(m)

\* calendar.leapdays(y1, y2): leap years in range(y1, y2).
LeapDays(y1, y2) ==
    LET a == y1 - 1
        b == y2 - 1
    IN  ((b \div 4) - (a \div 4)) - ((b \div 100) - (a \div 100))
          + ((b \div 400) - (a \div 400))

RECURSIVE DaysBeforeMonth(_)
DaysBeforeMonth(m) == IF m = 1 THEN 0 ELSE DaysBeforeMonth(m - 1) + MDays(m - 1)

\* calendar.timegm: whole seconds from 1970-01-01T00:00:00 UTC to the
\* first six fields of a time tuple.
timegm(t) ==
    LET days == 365 * (t[1] - 1970) + LeapDays(1970, t[1])
                + DaysBeforeMonth(t[2])
                + (IF t[2] > 2 /\ IsLeap(t[1]) THEN 1 ELSE 0)
                + t[3] - 1
    IN  Norm(days, t[4] * 3600 + t[5] * 60 + t[6])

\* gmtime: the calendar fields of a whole number of seconds since the epoch
\* (civil-from-days on the proleptic Gregorian calendar).
gmtime(S) ==
    LET z == S.d + 719468
        era == z \div 146097
        doe == z % 146097
        yoe == (doe - (doe \div 1460) + (doe \div 36524) - (doe \div 146096))
               \div 365
        doy == doe - (365 * yoe + (yoe \div 4) - (yoe \div 100))
        mp == (5 * doy + 2) \div 153
        day == doy - ((153 * mp + 2) \div 5) + 1
        mon == IF mp < 10 THEN mp + 3 ELSE mp - 9
        yr == yoe + era * 400 + (IF mon <= 2 THEN 1 ELSE 0)
    IN  <<yr, mon, day, S.s \div 3600, (S.s % 3600) \div 60, S.s % 60>>

\* time.mktime / time.localtime: the conversions that depend on the host's
\* timezone (zone = seconds east of UTC).  DateTime uses neither.
mktime(t, zone) == LET g == timegm(t) IN Norm(g.d, g.s - zone)

localtime(S, zone) == gmtime(Norm(S.d, S.s + zone))

\* datetime.datetime.__new__(cls, year, month, day, hour, minute, second,
\* microsecond): range checks of the base type.
ValidCalendar(t) ==
    /\ t[1] \in 1..9999
    /\ t[2] \in 1..12
    /\ t[3] >= 1
    /\ t[3] <= DaysInMonth(t[1], t[2])
    /\ t[4] \in 0..23
    /\ t[5] \in 0..59
    /\ t[6] \in 0..59
    /\ t[7] \in 0..999999

NoTime == <<0, 0, 0, 0, 0, 0, 0>>

BaseNew(t) ==
    IF ValidCalendar(t) THEN [err |-> "none", t |-> t]
    ELSE [err |-> "ValueError", t |-> NoTime]

\* The calendar conversion utcfromtimestamp applies to the whole seconds.
BrokenDownTime(S, zone) == gmtime(S)

\* datetime.datetime.utcfromtimestamp(x) for a float x >= 0: whole seconds
\* by truncation, microseconds by rounding, one second carried when the
\* microseconds round to 1000000.
utcfromtimestamp(f, zone) ==
    LET us0 == FracToMicro(f.q, f.k)
        S == IF us0 = 1000000 THEN Norm(f.d, f.s + 1) ELSE [d |-> f.d, s |-> f.s]
        us == IF us0 = 1000000 THEN 0 ELSE us0
    IN  BaseNew(BrokenDownTime(S, zone) \o <<us>>)

\* DateTime.__new__: one numeric argument is an epoch time, anything else
\* goes to the calendar constructor of the base type.
DateTimeNew(a, zone) ==
    IF a.kind = "num" THEN utcfromtimestamp(a.f, zone) ELSE BaseNew(a.t)

\* time.mktime(self.timetuple()) in place of timegm.
EpochSecondsLocal(t, zone) == mktime(t, zone)

\* The whole seconds timestamp() starts from.
EpochSeconds(t, zone) == timegm(t)

\* DateTime.timestamp: float(timegm(self.timetuple())) + microsecond / 1.0e6
timestamp(t, zone) == FloatPlusMicro(EpochSeconds(t, zone), t[7])

(***************************************************************************)
(* Stats                                                                   *)
(***************************************************************************)

\* Python values, all of one shape so that any two can be compared.
StrVal(x) == [t |-> "str", s |-> x, n |-> 0, dt |-> <<>>]
IntVal(x) == [t |-> "int", s |-> "", n |-> x, dt |-> <<>>]
FloatVal(x) == [t |-> "float", s |-> "", n |-> x, dt |-> <<>>]
TimeVal(x) == [t |-> "DateTime", s |-> "", n |-> 0, dt |-> x]
MethodVal(x) == [t |-> "method", s |-> x, n |-> 0, dt |-> <<>>]
NoneVal == [t |-> "None", s |-> "", n |-> 0, dt |-> <<>>]

Ok(v) == [err |-> "none", val |-> v]
Err(e) == [err |-> e, val |-> NoneVal]

EmptyDict == [x \in {} |-> NoneVal]

\* d[k] = v on a dict
Put(d, k, v) == [x \in DOMAIN d \cup {k} |-> IF x = k THEN v ELSE d[x]]

\* The fields the class documents (@ivar lines).
Documented ==
    {"station", "sampling_rate", "npts", "network", "location", "channel",
     "dataquality", "starttime", "endtime"}

\* Attributes every dict instance finds on its type: methods are non-data
\* descriptors, so an entry of the instance dictionary hides them.
DictMethods == {"get", "keys"}

\* A Stats object as allocated, before __init__: an empty dict with an empty
\* attribute dictionary of its own.
NewStats == [items |-> EmptyDict, own |-> EmptyDict, dictref |-> "own"]

\* The dictionary attribute access goes through: self.__dict__.
AttrDict(o) == IF o.dictref = "self" THEN o.items ELSE o.own

\* __init__ without the line "self.__dict__ = self".
AliasDictMissing(o) == o

\* self.__dict__ = self
AliasDict(o) == [o EXCEPT !.dictref = "self"]

\* o.k = v
SetAttribute(o, k, v) ==
    IF o.dictref = "self"
    THEN [o EXCEPT !.items = Put(o.items, k, v)]
    ELSE [o EXCEPT !.own = Put(o.own, k, v)]

\* o[k] = v
SetItem(o, k, v) == [o EXCEPT !.items = Put(o.items, k, v)]

\* o.k : the instance dictionary first, then the type.
GetAttribute(o, k) ==
    IF k \in DOMAIN AttrDict(o) THEN Ok(AttrDict(o)[k])
    ELSE IF k \in DictMethods THEN Ok(MethodVal(k))
    ELSE Err("AttributeError")

\* o[k]
GetItem(o, k) ==
    IF k \in DOMAIN o.items THEN Ok(o.items[k]) ELSE Err("KeyError")

\* o.get(k): looks the attribute "get" up, then calls what it found.
CallGet(o, k) ==
    IF GetAttribute(o, "get") = Ok(MethodVal("get"))
    THEN (IF k \in DOMAIN o.items THEN Ok(o.items[k]) ELSE Ok(NoneVal))
    ELSE Err("TypeError")

\* o.keys(): looks the attribute "keys" up, then calls what it found.
CallKeys(o) ==
    IF GetAttribute(o, "keys") = Ok(MethodVal("keys"))
    THEN [err |-> "none", keys |-> DOMAIN o.items]
    ELSE [err |-> "TypeError", keys |-> {}]

\* DateTime.utcfromtimestamp(x), the classmethod inherited from datetime,
\* for a whole number of seconds x.
DefaultTime(x) == TimeVal(utcfromtimestamp(FloatOfInt(Norm(0, x)), 0).t)

\* The values __init__ assigns.
Default(k) ==
    CASE k = "station"       -> StrVal("dummy")
      [] k = "sampling_rate" -> FloatVal(1)
      [] k = "npts"          -> IntVal(-1)
      [] k = "network"       -> StrVal("--")
      [] k = "location"      -> StrVal("")
      [] k = "channel"       -> StrVal("BHZ")
      [] k = "dataquality"   -> StrVal("")
      [] k = "starttime"     -> DefaultTime(0)
      [] k = "endtime"       -> DefaultTime(86400)

\* The assignments of __init__, in source order.
DefaultOrder ==
    <<"station", "sampling_rate", "npts", "network", "location", "channel",
      "dataquality", "starttime", "endtime">>

RECURSIVE FillDefaults(_, _)
\* The first n assignments "self.<field> = <default>" of __init__.
FillDefaults(o, n) ==
    IF n = 0 THEN o
    ELSE LET k == DefaultOrder[n]
         IN  SetAttribute(FillDefaults(o, n - 1), k, Default(k))

\* dict.__init__(self, *args, **kwargs)
DictInit(o, init) == [o EXCEPT !.items = init]

\* Stats.__init__
StatsInit(o, init) ==
    FillDefaults(AliasDict(DictInit(o, init)), Len(DefaultOrder))

\* Stats(initial)
Construct ==
    /\ spc = "new"
    /\ stats' = StatsInit(stats, initial)
    /\ spc' = "live"
    /\ UNCHANGED <<initial, written, dvars, tvars>>

\* Keys and values the model writes after construction.
WriteKeys == {"station", "extra", "get", "keys"}

WriteVals == {StrVal("ROTZ"), IntVal(5)}

\* stats.k = v
WriteAttribute(k, v) ==
    /\ spc = "live"
    /\ stats' = SetAttribute(stats, k, v)
    /\ written' = Put(written, k, v)
    /\ UNCHANGED <<spc, initial, dvars, tvars>>

\* stats[k] = v
WriteItem(k, v) ==
    /\ spc = "live"
    /\ stats' = SetItem(stats, k, v)
    /\ written' = Put(written, k, v)
    /\ UNCHANGED <<spc, initial, dvars, tvars>>

\* The mappings the model passes to Stats(...): at most MaxInitial pairs.
MaxInitial == 2

InitKeys == Documented \cup {"extra"}

InitialMappings ==
    UNION {[S -> WriteVals] :
             S \in {T \in SUBSET InitKeys : Cardinality(T) <= MaxInitial}}

(***************************************************************************)
(* The DateTime scenario: build a value, take its timestamp, add whole     *)
(* seconds to the float, build a value from the result (doctest lines      *)
(* 74-85).                                                                 *)
(***************************************************************************)

ZeroFloat == FloatOfInt(Norm(0, 0))

NoDateTime == [err |-> "none", t |-> NoTime]

CalArg(t) == [kind |-> "cal", f |-> ZeroFloat, t |-> t]
NumArg(f) == [kind |-> "num", f |-> f, t |-> NoTime]

\* Dates around the magnitudes where the spacing of doubles changes
\* (2^31, 2^32, 2^33 seconds) and at both ends of the supported range.
SampleDates ==
    {<<1970, 1, 1, 0, 0, 0>>, <<1970, 1, 2, 0, 0, 0>>,
     <<2000, 2, 29, 23, 59, 59>>, <<2009, 4, 24, 8, 27, 12>>,
     <<2038, 1, 19, 3, 14, 7>>, <<2038, 1, 19, 3, 14, 8>>,
     <<2106, 2, 7, 6, 28, 15>>, <<2106, 2, 7, 6, 28, 16>>,
     <<2242, 3, 16, 12, 56, 31>>, <<2242, 3, 16, 12, 56, 32>>,
     <<9999, 12, 31, 23, 59, 59>>}

SampleMicros == {0, 1, 5000, 500000, 999999}

InvalidDates == {<<2009, 2, 30, 0, 0, 0, 0>>, <<2009, 13, 1, 0, 0, 0, 0>>}

Args ==
    {CalArg(d \o <<us>>) : d \in SampleDates, us \in SampleMicros}
    \cup {CalArg(t) : t \in InvalidDates}
    \cup {NumArg(FloatOfInt(Norm(0, 0))), NumArg(FloatOfInt(Norm(0, 86400))),
          NumArg(FloatPlusMicro(timegm(<<2009, 4, 24, 8, 27, 12>>), 5000))}

SampleAdds == {0, 60, 86400, -60}

Zones == {0, 3600, -18000}

\* DateTime(arg)
New ==
    /\ tpc = "new"
    /\ dt' = DateTimeNew(arg, tz)
    /\ tpc' = IF dt'.err = "none" THEN "built" ELSE "error"
    /\ UNCHANGED <<tz, arg, ts, nadd, ts2, dt2, dvars, svars>>

\* t.timestamp()
Timestamp ==
    /\ tpc = "built"
    /\ ts' = timestamp(dt.t, tz)
    /\ tpc' = "stamped"
    /\ UNCHANGED <<tz, arg, dt, nadd, ts2, dt2, dvars, svars>>

\* t.timestamp() + n
AddSeconds ==
    /\ tpc = "stamped"
    /\ ts2' = FloatAddInt(ts, nadd)
    /\ tpc' = "added"
    /\ UNCHANGED <<tz, arg, dt, ts, nadd, dt2, dvars, svars>>

\* DateTime(t.timestamp() + n)
Rebuild ==
    /\ tpc = "added"
    /\ dt2' = DateTimeNew(NumArg(ts2), tz)
    /\ tpc' = "rebuilt"
    /\ UNCHANGED <<tz, arg, dt, ts, nadd, ts2, dvars, svars>>

(***************************************************************************)
(* Specifications                                                          *)
(***************************************************************************)

CandidateSet == {Candidates[k] : k \in 1..NumCandidates}

IdleDiscover ==
    /\ pc = "idle"
    /\ verbose = FALSE
    /\ outcome = [c \in CandidateSet |-> [kind |-> "binds", exc |-> "none", n |-> 0]]
    /\ bound = {}
    /\ temp = <<>>
    /\ failure = <<>>
    /\ out = <<>>
    /\ idx = 0
    /\ ret = <<>>
    /\ raised = "none"

IdleStats ==
    /\ spc = "idle"
    /\ initial = EmptyDict
    /\ stats = NewStats
    /\ written = EmptyDict

IdleTime ==
    /\ tpc = "idle"
    /\ tz = 0
    /\ arg = NumArg(ZeroFloat)
    /\ dt = NoDateTime
    /\ ts = ZeroFloat
    /\ nadd = 0
    /\ ts2 = ZeroFloat
    /\ dt2 = NoDateTime

\* A call getFormatsAndMethods(verbose) in some installation.
InitDiscover ==
    /\ pc = Candidates[1]
    /\ verbose \in BOOLEAN
    /\ outcome \in [CandidateSet -> Outcomes]
    /\ bound = {}
    /\ temp = <<>>
    /\ failure = <<>>
    /\ out = <<>>
    /\ idx = 0
    /\ ret = <<>>
    /\ raised = "none"
    /\ IdleStats
    /\ IdleTime

\* A Stats object about to be initialised with some mapping.
InitStats ==
    /\ spc = "new"
    /\ initial \in InitialMappings
    /\ stats = NewStats
    /\ written = EmptyDict
    /\ IdleDiscover
    /\ IdleTime

\* A DateTime about to be built from some arguments, on some host.
InitTime ==
    /\ tpc = "new"
    /\ tz \in Zones
    /\ arg \in Args
    /\ nadd \in SampleAdds
    /\ (nadd >= 0 \/ (arg.kind = "cal" /\ arg.t[1] > 1970))
    /\ dt = NoDateTime
    /\ ts = ZeroFloat
    /\ ts2 = ZeroFloat
    /\ dt2 = NoDateTime
    /\ IdleDiscover
    /\ IdleStats

NextDiscover ==
    \/ TryMSEED
    \/ TryGSE2
    \/ TryWAV
    \/ TestVerbose
    \/ PrintFailure
    \/ Return

NextStats ==
    \/ Construct
    \/ \E k \in WriteKeys, v \in WriteVals : WriteAttribute(k, v)
    \/ \E k \in WriteKeys, v \in WriteVals : WriteItem(k, v)

NextTime ==
    \/ New
    \/ Timestamp
    \/ AddSeconds
    \/ Rebuild

SpecDiscover == InitDiscover /\ [][NextDiscover]_vars

\* The function body runs to completion once called.
FairDiscover == SpecDiscover /\ WF_vars(NextDiscover)

SpecStats == InitStats /\ [][NextStats]_vars

SpecTime == InitTime /\ [][NextTime]_vars

Init == InitDiscover \/ InitStats \/ InitTime

Next == NextDiscover \/ NextStats \/ NextTime

Spec == Init /\ [][Next]_vars

(***************************************************************************)
(* Properties of getFormatsAndMethods                                      *)
(***************************************************************************)

Failed(c) == outcome[c].kind # "binds"

FullyBound(c) == \A j \in 1..3 : NamesOf(c)[j] \in bound

\* The candidates, in source order, that satisfy P.
Restrict(P(_)) == SelectSeq(Candidates, P)

IsBinding(c) == ~Failed(c)

NamesIn(t) == [j \in 1..Len(t) |-> t[j][1]]

ModulesIn(f) == [j \in 1..Len(f) |-> f[j].module]

\* C1: whatever the three imports do, no exception leaves the call, and the
\* call reaches its return statement (also when every candidate fails).
DiscoverNeverRaises == [](raised = "none" /\ pc # "raised") /\ <>(pc = "done")

\* C1 witness: a call returned although every candidate failed, one of them
\* with an exception raised by the backend itself.
AllFailedReturned ==
    /\ pc = "done"
    /\ ret = <<(<<>>)>>
    /\ Len(failure) = 3
    /\ \E c \in CandidateSet : outcome[c].kind = "raises"

\* C2: a format name is in the returned list exactly when all three names of
\* that candidate were bound in this call, and every descriptor is the name
\* followed by the candidate's three bound functions.
DescriptorIffAllBound ==
    /\ \A j \in 1..Len(temp) :
          /\ Len(temp[j]) = 4
          /\ temp[j][1] \in CandidateSet
          /\ temp[j] = <<temp[j][1]>> \o NamesOf(temp[j][1])
          /\ \A n \in 2..4 : temp[j][n] \in bound
    /\ pc = "done" =>
          /\ Len(ret) >= 1
          /\ \A c \in CandidateSet :
                (\E j \in 1..Len(ret[1]) : ret[1][j][1] = c) <=> FullyBound(c)

\* C2 witness: the first candidate failed with two of its names bound, the
\* second failed too, and the third is in the result.
PartialCandidateExcluded ==
    /\ pc = "done"
    /\ outcome["MSEED"].kind = "noname"
    /\ outcome["MSEED"].n = 3
    /\ "readMSEED" \in bound
    /\ Failed("GSE2")
    /\ NamesIn(ret[1]) = <<"WAV">>

\* C3: the returned names are the candidate order restricted to the
\* candidates that bound, without duplicates.
DescriptorsInCandidateOrder ==
    pc = "done" =>
        /\ NamesIn(ret[1]) = Restrict(IsBinding)
        /\ \A i, j \in 1..Len(ret[1]) : ret[1][i][1] = ret[1][j][1] => i = j

\* C3 witness: the middle candidate failed and the two others are returned
\* in source order.
MiddleFailedOrderKept ==
    /\ pc = "done"
    /\ Failed("GSE2")
    /\ NamesIn(ret[1]) = <<"MSEED", "WAV">>

\* C4 as stated: the caller receives the pair (descriptors, failures).
DiscoverReturnsPair ==
    pc = "done" => (Len(ret) = 2 /\ ret[1] = temp /\ ret[2] = failure)

\* C4 amended: the caller receives the descriptor list alone; the failure
\* list kept inside the call holds one diagnostic per failed candidate, in
\* candidate order, none for a candidate that bound, and a single missing
\* module leaves a single diagnostic naming that module.
FailuresKeptLocal ==
    pc = "done" =>
        /\ ret = <<temp>>
        /\ ModulesIn(failure) = [j \in 1..Len(Restrict(Failed)) |->
                                    ModuleOf(Restrict(Failed)[j])]
        /\ \A j \in 1..Len(failure) :
              failure[j] = FormatExc(Restrict(Failed)[j],
                                     outcome[Restrict(Failed)[j]])
        /\ \A c \in CandidateSet :
              (/\ outcome[c].kind = "missing"
               /\ \A b \in CandidateSet \ {c} : ~Failed(b))
              => (Len(failure) = 1 /\ failure[1].module = ModuleOf(c))

\* C4 witness: two candidates failed, the call returned its list and kept
\* two diagnostics.
TwoFailuresKept ==
    /\ pc = "done"
    /\ Failed("MSEED")
    /\ ~Failed("GSE2")
    /\ outcome["WAV"].kind = "missing"
    /\ Len(failure) = 2
    /\ Len(ret) = 1

\* The descriptor list a call returns in an installation, whatever the flag.
DescriptorsFor(oc) ==
    LET ok(c) == oc[c].kind = "binds"
        names == SelectSeq(Candidates, ok)
    IN  [j \in 1..Len(names) |-> <<names[j]>> \o NamesOf(names[j])]

\* C9: nothing is printed unless verbose; with verbose the diagnostics are
\* printed once each, in the order captured, only after the third try block;
\* the returned list is determined by the installation alone.
EmissionConfinedToVerbose ==
    /\ ~verbose => out = <<>>
    /\ out # <<>> => pc \in {"print", "return", "done"}
    /\ Len(out) <= Len(failure)
    /\ \A j \in 1..Len(out) : out[j] = failure[j]
    /\ (verbose /\ pc \in {"return", "done"}) => out = failure
    /\ pc = "done" => ret[1] = DescriptorsFor(outcome)

\* C9 witness: a verbose call printed two diagnostics and returned.
VerbosePrintedTwo ==
    /\ pc = "done"
    /\ verbose
    /\ Len(out) = 2
    /\ out = failure

(***************************************************************************)
(* Properties of Stats                                                     *)
(***************************************************************************)

JustConstructed == spc = "live" /\ written = EmptyDict

\* The defaults the class documents.
DocumentedDefaults ==
    [k \in Documented |->
        CASE k = "station"       -> StrVal("dummy")
          [] k = "network"       -> StrVal("--")
          [] k = "location"      -> StrVal("")
          [] k = "channel"       -> StrVal("BHZ")
          [] k = "sampling_rate" -> FloatVal(1)
          [] k = "npts"          -> IntVal(-1)
          [] k = "dataquality"   -> StrVal("")
          [] k = "starttime"     -> TimeVal(<<1970, 1, 1, 0, 0, 0, 0>>)
          [] k = "endtime"       -> TimeVal(<<1970, 1, 2, 0, 0, 0, 0>>)]

\* C5 as stated: right after construction, a documented field supplied in
\* the initial mapping reads the supplied value.
SuppliedKeyWins ==
    JustConstructed =>
        \A k \in DOMAIN initial \cap Documented :
            GetAttribute(stats, k) = Ok(initial[k])

\* C6 as stated: after any writes the two views hold the same keys, and
\* every written key reads its last written value by attribute, by index
\* and by get, and is listed by keys().
DualAccess ==
    spc = "live" =>
        /\ DOMAIN AttrDict(stats) = DOMAIN stats.items
        /\ \A k \in DOMAIN written :
              /\ GetAttribute(stats, k) = Ok(written[k])
              /\ GetItem(stats, k) = Ok(written[k])
              /\ CallGet(stats, k) = Ok(written[k])
              /\ CallKeys(stats).err = "none"
              /\ k \in CallKeys(stats).keys

\* C10: right after construction, a record built from no pairs holds
\* exactly the nine documented fields at their documented defaults, and a
\* record built from some pairs holds every documented field it was not
\* given at that default; both views show them.
DefaultsPresent ==
    JustConstructed =>
        /\ initial = EmptyDict => DOMAIN stats.items = Documented
        /\ \A k \in Documented \ DOMAIN initial :
              /\ GetItem(stats, k) = Ok(DocumentedDefaults[k])
              /\ GetAttribute(stats, k) = Ok(DocumentedDefaults[k])
              /\ CallGet(stats, k) = Ok(DocumentedDefaults[k])
              /\ k \in CallKeys(stats).keys

\* C10 witness: a record built from one extra pair, with all nine defaults.
DefaultsBesideExtra ==
    /\ JustConstructed
    /\ DOMAIN initial = {"extra"}
    /\ DOMAIN stats.items = Documented \cup {"extra"}
    /\ stats.items["endtime"] = TimeVal(<<1970, 1, 2, 0, 0, 0, 0>>)

(***************************************************************************)
(* Properties of DateTime                                                  *)
(***************************************************************************)

\* Days from 1970-01-01 to a civil date, by counting 400-year eras.
DaysFromCivil(y, m, d) ==
    LET yy == IF m <= 2 THEN y - 1 ELSE y
        era == yy \div 400
        yoe == yy % 400
        mp == IF m > 2 THEN m - 3 ELSE m + 9
        doy == ((153 * mp + 2) \div 5) + d - 1
        doe == yoe * 365 + (yoe \div 4) - (yoe \div 100) + doy
    IN  era * 146097 + doe - 719468

\* Whole seconds from 1970-01-01T00:00:00 UTC to the first six fields of t.
UtcSeconds(t) ==
    Norm(DaysFromCivil(t[1], t[2], t[3]), t[4] * 3600 + t[5] * 60 + t[6])

PairLT(a, b) == ~PairLE(b, a)

\* The calendar value dt2 lies n seconds after t, same microsecond.
ShiftedBy(t, n, r) ==
    /\ r.err = "none"
    /\ UtcSeconds(r.t) = Norm(UtcSeconds(t).d, UtcSeconds(t).s + n)
    /\ r.t[7] = t[7]
    /\ n = 0 => r.t = t

\* C7 as stated: for every valid calendar tuple, the value rebuilt from the
\* timestamp plus n whole seconds is the calendar value n seconds later with
\* the same microsecond (the identical tuple for n = 0).
RoundTripEveryTuple ==
    (tpc = "rebuilt" /\ arg.kind = "cal") => ShiftedBy(dt.t, nadd, dt2)

\* The epoch seconds S of the tuple and S + n both lie in [0, 2^33), and the
\* addition does not carry the float from below 2^32 to 2^32 or above.
ExactRange(t, n) ==
    LET S == UtcSeconds(t)
        T == Norm(S.d, S.s + n)
    IN  /\ T.d >= 0
        /\ S.d >= 0
        /\ PairLT(S, Pow2Pair(33))
        /\ PairLT(T, Pow2Pair(33))
        /\ ~(PairLT(S, Pow2Pair(32)) /\ PairLE(Pow2Pair(32), T))

\* C7 amended: the round trip and the shift by n whole seconds are exact for
\* the calendar tuples of ExactRange.
RoundTripInExactRange ==
    (tpc = "rebuilt" /\ arg.kind = "cal" /\ ExactRange(dt.t, nadd))
        => ShiftedBy(dt.t, nadd, dt2)

\* C7 witness: the doctest, 2009-04-24T08:27:12.005 plus 60 seconds.
DoctestShiftedByMinute ==
    /\ tpc = "rebuilt"
    /\ arg = CalArg(<<2009, 4, 24, 8, 27, 12, 5000>>)
    /\ nadd = 60
    /\ dt2 = [err |-> "none", t |-> <<2009, 4, 24, 8, 28, 12, 5000>>]

\* C8: under every host timezone, timestamp() is the UTC second count of
\* the calendar fields plus microsecond / 1e6 to the precision of a double,
\* and DateTime(0), DateTime(86400) are 1970-01-01 and 1970-01-02 at 00:00.
TimestampIgnoresTimezone ==
    /\ tpc \in {"stamped", "added", "rebuilt"} =>
          LET S == UtcSeconds(dt.t)
              S1 == Norm(S.d, S.s + 1)
              k == FracBits(S)
              p == MulPow2Div(dt.t[7], k - 6)
          IN  \/ /\ ts.d = S.d
                 /\ ts.s = S.s
                 /\ ts.k = k
                 /\ ts.q \in {p.quo, p.quo + 1}
              \/ /\ ts.d = S1.d
                 /\ ts.s = S1.s
                 /\ ts.q = 0
                 /\ p.quo + 1 = 2 ^ k
    /\ (tpc # "new" /\ arg = NumArg(FloatOfInt(Norm(0, 0))))
          => dt = [err |-> "none", t |-> <<1970, 1, 1, 0, 0, 0, 0>>]
    /\ (tpc # "new" /\ arg = NumArg(FloatOfInt(Norm(0, 86400))))
          => dt = [err |-> "none", t |-> <<1970, 1, 2, 0, 0, 0, 0>>]

\* C8 witness: on a host west of Greenwich, 2009-04-24T08:27:12.005 has
\* the timestamp 1240561632.005 (14358 days and 30432 seconds).
StampedWestOfGreenwich ==
    /\ tpc = "stamped"
    /\ tz = -18000
    /\ dt.t = <<2009, 4, 24, 8, 27, 12, 5000>>
    /\ ts.d = 14358
    /\ ts.s = 30432
    /\ ts.q = 20972
    /\ ts.k = 22

====
